---- MODULE Spec2Model ----
(***************************************************************************)
(* Model of golang-mixins/servers, package http/std (server.go): the       *)
(* Config validator, the constructor New, and the lifecycle controller     *)
(* Server with its two methods Serve and Stop.                             *)
(*                                                                         *)
(* Time is discrete.  Statements of the program take no time; time passes  *)
(* (action Tick) only while every started invocation is blocked: on the    *)
(* mutex, inside http.Server.Shutdown waiting for connections or for its   *)
(* context, inside http.Server.Close, in the select of Stop, or inside the *)
(* accept loop of ListenAndServe.  Deadlines and timers are kept as the    *)
(* time left until they expire, and each Stop invocation counts the time   *)
(* elapsed since its call.                                                 *)
(*                                                                         *)
(* net/http is not part of the repository; its Server is modelled by the   *)
(* documented behaviour of the calls the repository makes on it.           *)
(***************************************************************************)
EXTENDS Integers, Sequences, FiniteSets, TLC

\* ------------------------------------------------------------------ bounds

\* number of concurrent Stop invocations
NumStop == 2
\* time stops passing for a Stop invocation that has taken MaxElapsed
MaxElapsed == 5
\* connections that can be in flight at once
MaxConn == 1

Procs == 1..NumStop

\* who invokes an operation on the http.Server: a Stop invocation (for the
\* goroutine it starts too) or the constructor New
Constructor == 0
Callers == Procs \cup {Constructor}

\* ------------------------------------------------------------------ values

\* error values are chains of messages, outermost first; nil is the empty chain
Nil == << >>
NewError(msg) == << msg >>
\* xerrors.Errorf("<msg>: %w", err)
Wrap(msg, err) == << msg >> \o err

ErrServerClosed == NewError("http: Server closed")
ErrListen == NewError("listen tcp: bind error")
ErrAccept == NewError("accept tcp: error")
ErrDeadlineExceeded == NewError("context deadline exceeded")
ErrCanceled == NewError("context canceled")
ErrListenerClose == NewError("close tcp: error")
ErrTimeoutExceeded == NewError("can't close http server, timeout exceeded")

\* characters of an address
Digits == {"0", "1", "2", "3", "4", "5", "6", "7", "8", "9"}

\* contexts: context.Background() and what the callers of Stop pass
\* (left: the time left until the deadline, when there is one)
Background == [hasDeadline |-> FALSE, left |-> 0, cancelled |-> FALSE]

\* context.WithTimeout(parent, d): the earlier of the parent's deadline and d
\* from now; cancelled with its parent
WithTimeout(parent, d) ==
    [hasDeadline |-> TRUE,
     left |-> IF parent.hasDeadline /\ parent.left < d THEN parent.left ELSE d,
     cancelled |-> parent.cancelled]

\* ctx.Done() is readable
CtxDone(c) == c.cancelled \/ (c.hasDeadline /\ c.left <= 0)

\* ctx.Err() once done
CtxErr(c) == IF c.cancelled THEN ErrCanceled ELSE ErrDeadlineExceeded

\* ------------------------------------------------------------------ Config

\* regexp `^:[0-9]+$` on the address, a sequence of characters
AddrRegExpMatch(addr) ==
    /\ Len(addr) >= 2
    /\ addr[1] = ":"
    /\ \A i \in 2..Len(addr) : addr[i] \in Digits

\* Config.Validate without its last check
Validate_NoSinkCheck(c) ==
    IF c.Router = "nil" THEN NewError("Router can't be nil")
    ELSE IF c.StopTimeout = 0 THEN NewError("StopTimeout can't be empty")
    ELSE IF ~AddrRegExpMatch(c.Addr)
         THEN NewError("RegExp: Addr must be in a valid format")
    ELSE Nil

\* Config.Validate: the error it returns, Nil when the Config is valid
Validate(c) ==
    IF c.Router = "nil" THEN NewError("Router can't be nil")
    ELSE IF c.StopTimeout = 0 THEN NewError("StopTimeout can't be empty")
    ELSE IF ~AddrRegExpMatch(c.Addr)
         THEN NewError("RegExp: Addr must be in a valid format")
    ELSE IF c.ErrorsOutput = "nil" THEN NewError("ErrorsOutput can't be nil")
    ELSE Nil

\* the configurations New is given: one well-formed address and the malformed
\* ones (a port that is not a number, the empty string, no port, no colon, a
\* host name in front, a character after the port), stop-timeouts of either
\* sign and zero, and a dispatcher and an error sink that may each be nil
Addrs ==
    { <<":", "8", "0">>, <<":", "a">>, << >>, <<":">>, <<"8", "0">>,
      <<"h", ":", "8", "0">>, <<":", "8", "a">> }
StopTimeouts == {0 - 1, 0, 1, 2}
Configs ==
    [Addr : Addrs,
     ReadTimeout : {0}, ReadHeaderTimeout : {1}, WriteTimeout : {0},
     IdleTimeout : {1}, StopTimeout : StopTimeouts, MaxHeaderBytes : {0},
     ErrorsOutput : {"writer", "nil"}, Router : {"handler", "nil"},
     KeepAliveEnabled : BOOLEAN]

\* what the caller of Stop passes: a live context, a cancelled one, and one
\* whose deadline is one unit of time away
CallerCtxs ==
    { Background,
      [hasDeadline |-> FALSE, left |-> 0, cancelled |-> TRUE],
      [hasDeadline |-> TRUE, left |-> 1, cancelled |-> FALSE] }

\* ------------------------------------------------------------------ state

VARIABLES
    cfg,      \* the Config handed to New
    callerCtx,\* the context the callers of Stop pass in this run
    built,    \* "no" before New, then "ok" (a *Server was returned) or "failed"
    newErr,   \* the error New returned
    s,        \* the Server struct: stopTimeout and the shutdown flag
    mutex,    \* s.mutex: the set of Stop invocations holding it (empty or one)
    http,     \* s.http, the net/http Server and its listener and connections
    stop,     \* per Stop invocation: program counter and locals
    closer,   \* the goroutine started by Stop for the forced close
    closing,  \* the channel closing: "nil", "open" or "closed"
    serve,    \* the Serve caller: program counter, return value, and the
              \* line Serve wrote last to s.http.ErrorLog (Serve may be
              \* called any number of times; the sink is never read, and
              \* of Serve's lines only the latest is kept)
    log,      \* the lines Stop wrote to s.http.ErrorLog, in order
    calls     \* listener operations invoked, per operation and caller

\* the inputs of a run
conf == << cfg, callerCtx >>

vars == << conf, built, newErr, s, mutex, http, stop, closer, closing, serve,
           log, calls >>

Ops == {"Shutdown", "Close", "SetKeepAlivesEnabled"}

\* the zero value of http.Server, before New fills it
ZeroHttp ==
    [Addr |-> << >>, Handler |-> "nil", ErrorLog |-> "nil",
     ReadTimeout |-> 0, ReadHeaderTimeout |-> 0, WriteTimeout |-> 0,
     IdleTimeout |-> 0, MaxHeaderBytes |-> 0,
     disableKeepAlives |-> FALSE, inShutdown |-> FALSE,
     listener |-> "none", closeErr |-> Nil, active |-> 0]

StopIdle ==
    [pc |-> "idle", ctx |-> Background, elapsed |-> 0, ret |-> Nil,
     lnerr |-> Nil, gerr |-> Nil, timerSet |-> FALSE, timerLeft |-> 0,
     span |-> "none"]

\* Serve has written nothing to s.http.ErrorLog yet
NoLine == [msg |-> "", err |-> Nil]

CloserNone == [pc |-> "none", owner |-> {}, err |-> Nil]

Init ==
    /\ cfg \in Configs
    /\ callerCtx \in CallerCtxs
    /\ built = "no"
    /\ newErr = Nil
    /\ s = [stopTimeout |-> 0, shutdown |-> FALSE]
    /\ mutex = {}
    /\ http = ZeroHttp
    /\ stop = [p \in Procs |-> StopIdle]
    /\ closer = CloserNone
    /\ closing = "nil"
    /\ serve = [pc |-> "idle", ret |-> Nil, logged |-> NoLine]
    /\ log = << >>
    /\ calls = [o \in Ops |-> [p \in Callers |-> 0]]

\* ------------------------------------------------------------------ net/http

\* http.Server.SetKeepAlivesEnabled(v)
SetKeepAlivesEnabled(h, v) == [h EXCEPT !.disableKeepAlives = ~v]

\* the start of http.Server.Shutdown: the server is marked as shutting down
\* and its tracked listeners are closed; e is the error of closing the listener
ShutdownBegin(h, e) ==
    [h EXCEPT !.inShutdown = TRUE,
              !.listener = IF @ = "tracked" THEN "trackedClosed" ELSE @,
              !.closeErr = IF h.listener = "tracked" THEN e ELSE @]

\* the error closing the tracked listeners gives (a listener that was closed
\* before gives the error of its first close again)
ListenerCloseErr(h) ==
    IF h.listener \in {"tracked", "trackedClosed"} THEN h.closeErr ELSE Nil

\* http.Server.Close: as ShutdownBegin, and every connection is closed
HttpClose(h, e) == [ShutdownBegin(h, e) EXCEPT !.active = 0]

\* ------------------------------------------------------------------ New

\* the *Server New builds from a valid Config
NewServer(c) == [stopTimeout |-> c.StopTimeout, shutdown |-> FALSE]

\* the http.Server New builds: optional fields only when non-zero
NewHttp(c) ==
    SetKeepAlivesEnabled(
        [ZeroHttp EXCEPT
            !.Addr = c.Addr,
            !.Handler = c.Router,
            !.ErrorLog = c.ErrorsOutput,
            !.ReadTimeout = IF c.ReadTimeout # 0 THEN c.ReadTimeout ELSE @,
            !.ReadHeaderTimeout =
                IF c.ReadHeaderTimeout # 0 THEN c.ReadHeaderTimeout ELSE @,
            !.WriteTimeout = IF c.WriteTimeout # 0 THEN c.WriteTimeout ELSE @,
            !.IdleTimeout = IF c.IdleTimeout # 0 THEN c.IdleTimeout ELSE @,
            !.MaxHeaderBytes =
                IF c.MaxHeaderBytes # 0 THEN c.MaxHeaderBytes ELSE @],
        c.KeepAliveEnabled)

\* New(cfg): on a valid Config the http.Server is built, which ends with a
\* call of its SetKeepAlivesEnabled
New ==
    /\ built = "no"
    /\ IF Validate(cfg) # Nil
       THEN /\ built' = "failed"
            /\ newErr' = Validate(cfg)
            /\ UNCHANGED << s, http, calls >>
       ELSE /\ built' = "ok"
            /\ newErr' = Nil
            /\ s' = NewServer(cfg)
            /\ http' = NewHttp(cfg)
            /\ calls' = [calls EXCEPT
                             !["SetKeepAlivesEnabled"][Constructor] = @ + 1]
    /\ UNCHANGED << conf, mutex, stop, closer, closing, serve, log >>

\* ------------------------------------------------------------------ Serve

\* what Serve returns when ListenAndServe returned err:
\* xerrors.New(err.Error()) for an error, nil for nil
ServeResult(err) == IF err # Nil THEN NewError(err[1]) ELSE Nil

\* the line Serve logs when ListenAndServe returned err
ServeLine(err) ==
    IF err # Nil
    THEN [msg |-> "error ListenAndServe", err |-> ServeResult(err)]
    ELSE [msg |-> "unexpected exit ListenAndServe", err |-> Nil]

\* lines 63-70 of Serve, once ListenAndServe has returned err
ServeReturn(err) ==
    serve' = [serve EXCEPT !.pc = "returned",
                           !.ret = ServeResult(err),
                           !.logged = ServeLine(err)]

\* Serve is called, for the first time or again after it has returned
ServeCall ==
    /\ built = "ok"
    /\ serve.pc \in {"idle", "returned"}
    /\ serve' = [serve EXCEPT !.pc = "check", !.ret = Nil]
    /\ UNCHANGED << conf, built, newErr, s, mutex, http, stop, closer, closing,
                    log, calls >>

\* ListenAndServe: a server that is shutting down returns ErrServerClosed
ServeCheck ==
    /\ serve.pc = "check"
    /\ IF http.inShutdown
       THEN ServeReturn(ErrServerClosed)
       ELSE /\ serve' = [serve EXCEPT !.pc = "listen"]
    /\ UNCHANGED << conf, built, newErr, s, mutex, http, stop, closer, closing,
                    log,
                    calls >>

\* ListenAndServe: net.Listen binds the address, or fails
ServeListen ==
    /\ serve.pc = "listen"
    /\ \E ok \in BOOLEAN :
          IF ok
          THEN /\ serve' = [serve EXCEPT !.pc = "track"]
               /\ http' = [http EXCEPT !.listener = "open", !.closeErr = Nil]
          ELSE /\ ServeReturn(ErrListen)
               /\ UNCHANGED http
    /\ UNCHANGED << conf, built, newErr, s, mutex, stop, closer, closing, log,
                    calls >>

\* http.Server.Serve: the listener is tracked unless the server is shutting down
ServeTrack ==
    /\ serve.pc = "track"
    /\ IF http.inShutdown
       THEN /\ ServeReturn(ErrServerClosed)
            /\ http' = [http EXCEPT !.listener = "none"]
       ELSE /\ serve' = [serve EXCEPT !.pc = "serving"]
            /\ http' = [http EXCEPT !.listener = "tracked"]
    /\ UNCHANGED << conf, built, newErr, s, mutex, stop, closer, closing, log,
                    calls >>

\* the accept loop fails on its own
ServeAcceptFault ==
    /\ serve.pc = "serving"
    /\ http.listener = "tracked"
    /\ ~http.inShutdown
    /\ ServeReturn(ErrAccept)
    /\ http' = [http EXCEPT !.listener = "none"]
    /\ UNCHANGED << conf, built, newErr, s, mutex, stop, closer, closing, log,
                    calls >>

\* the accept loop finds its listener closed by Shutdown or Close
ServeClosed ==
    /\ serve.pc = "serving"
    /\ http.listener = "trackedClosed"
    /\ ServeReturn(ErrServerClosed)
    /\ http' = [http EXCEPT !.listener = "none"]
    /\ UNCHANGED << conf, built, newErr, s, mutex, stop, closer, closing, log,
                    calls >>

\* a request arrives on the listener and is being handled
ConnArrive ==
    /\ serve.pc = "serving"
    /\ http.listener = "tracked"
    /\ http.active < MaxConn
    /\ http' = [http EXCEPT !.active = @ + 1]
    /\ UNCHANGED << conf, built, newErr, s, mutex, stop, closer, closing,
                    serve, log, calls >>

\* a request in flight completes
ConnDone ==
    /\ http.active > 0
    /\ http' = [http EXCEPT !.active = @ - 1]
    /\ UNCHANGED << conf, built, newErr, s, mutex, stop, closer, closing,
                    serve, log, calls >>

\* ------------------------------------------------------------------ Stop

Logged(who, msg, err) == Append(log, [by |-> who, msg |-> msg, err |-> err])

\* trace.StartSpan(ctx, "http server stop"): ctx gives the span its parent
\* span only, and Stop discards the context StartSpan returns
StartSpan(c) == "open"

\* span.End()
EndSpan == "ended"

\* Stop(ctx) is called: trace.StartSpan(ctx, ...) opens the span
StopCall(p) ==
    /\ built = "ok"
    /\ stop[p].pc = "idle"
    /\ stop' = [stop EXCEPT ![p].pc = "lock", ![p].ctx = callerCtx,
                            ![p].span = StartSpan(callerCtx)]
    /\ UNCHANGED << conf, built, newErr, s, mutex, http, closer, closing,
                    serve, log, calls >>

\* s.mutex.Lock() returns when no invocation holds the mutex m
CanLock_Always(m) == TRUE
CanLock(m) == m = {}

\* s.mutex.Lock()
StopLock(p) ==
    /\ stop[p].pc = "lock"
    /\ CanLock(mutex)
    /\ mutex' = mutex \cup {p}
    /\ stop' = [stop EXCEPT ![p].pc = "check"]
    /\ UNCHANGED << conf, built, newErr, s, http, closer, closing, serve, log,
                    calls >>

\* a `return err` of Stop up to the release of the mutex: the deferred calls
\* run last in, first out, so timer.Stop(), cancel() and s.mutex.Unlock()
\* have run, while span.End() and the return to the caller are still to come.
\* The locals are gone, and the time the invocation has taken is no longer
\* counted: the statements that remain take no time.
Returned(p, err) ==
    /\ stop' = [stop EXCEPT ![p].pc = "ending", ![p].ret = err,
                            ![p].elapsed = 0,
                            ![p].ctx = Background, ![p].lnerr = Nil,
                            ![p].timerLeft = 0]
    /\ mutex' = mutex \ {p}

\* the deferred span.End() runs, after the Unlock, and Stop returns to its
\* caller
StopEnd(p) ==
    /\ stop[p].pc = "ending"
    /\ stop' = [stop EXCEPT ![p].pc = "done", ![p].span = EndSpan]
    /\ UNCHANGED << conf, built, newErr, s, mutex, http, closer, closing,
                    serve, log, calls >>

\* `if s.shutdown`
AlreadyShutdown_Never(srv) == FALSE
AlreadyShutdown_Always(srv) == TRUE
AlreadyShutdown(srv) == srv.shutdown

\* `s.shutdown = true`
FlagOnEntry_Unset == FALSE
FlagOnEntry == TRUE

\* `return nil` of an invocation that found the flag set
IdempotentResult_Error == ErrServerClosed
IdempotentResult == Nil

\* the parent of the context Stop hands to Shutdown; c is the caller's context
StopTimeoutParent_Caller(c) == c
StopTimeoutParent(c) == Background

\* lines 81-90 of an invocation whose incoming context is c
StopCheckWith(p, c) ==
    /\ stop[p].pc = "check"
    /\ IF AlreadyShutdown(s)
       THEN /\ Returned(p, IdempotentResult)
            /\ UNCHANGED << s, log >>
       ELSE /\ log' = Logged(p, "starting shutdown http server", Nil)
            /\ s' = [s EXCEPT !.shutdown = FlagOnEntry]
            /\ stop' = [stop EXCEPT
                            ![p].pc = "shutdown",
                            ![p].ctx = WithTimeout(StopTimeoutParent(c),
                                                   s.stopTimeout)]
            /\ UNCHANGED mutex
    /\ UNCHANGED << conf, built, newErr, http, closer, closing, serve, calls >>

StopCheck(p) == StopCheckWith(p, stop[p].ctx)

\* s.http.Shutdown(ctx) is entered: the listener is closed, and a server with
\* no request in flight returns at once with the listener's close error
StopShutdown(p) ==
    /\ stop[p].pc = "shutdown"
    /\ \E e \in (IF http.listener = "tracked"
                 THEN {Nil, ErrListenerClose} ELSE {Nil}) :
          /\ http' = ShutdownBegin(http, e)
          /\ stop' = [stop EXCEPT
                          ![p].lnerr = e,
                          ![p].gerr = IF http.active = 0 THEN e ELSE Nil,
                          ![p].pc = IF http.active = 0
                                    THEN "shutdownDone" ELSE "shutdownWait"]
    /\ calls' = [calls EXCEPT !["Shutdown"][p] = @ + 1]
    /\ UNCHANGED << conf, built, newErr, s, mutex, closer, closing, serve,
                    log >>

\* what a waiting Shutdown can return now
ShutdownResults(p) ==
    (IF http.active = 0 THEN {stop[p].lnerr} ELSE {})
    \cup (IF CtxDone(stop[p].ctx) THEN {CtxErr(stop[p].ctx)} ELSE {})

\* s.http.Shutdown(ctx) returns after waiting: the requests in flight have
\* finished, or the context is done
StopShutdownWait(p) ==
    /\ stop[p].pc = "shutdownWait"
    /\ \E e \in ShutdownResults(p) :
          stop' = [stop EXCEPT ![p].gerr = e, ![p].pc = "shutdownDone"]
    /\ UNCHANGED << conf, built, newErr, s, mutex, http, closer, closing,
                    serve, log, calls >>

\* `if err == nil` after Shutdown
GracefulDone_Never(err) == FALSE
GracefulDone(err) == err = Nil

\* time.NewTimer(s.stopTimeout): the time until it fires
TimerDuration(srv) == srv.stopTimeout

\* the holders of s.mutex once invocation p has started the forced phase: the
\* Unlock is deferred, and nothing unlocks before the select
MutexInForcedPhase_Released(p) == mutex \ {p}
MutexInForcedPhase(p) == mutex

\* lines 93-113: the graceful outcome is logged; on an error the channel, the
\* timer and the goroutine of the forced close are created
StopAfterShutdown(p) ==
    /\ stop[p].pc = "shutdownDone"
    /\ IF GracefulDone(stop[p].gerr)
       THEN /\ log' = Logged(p, "shutdown successful", Nil)
            /\ Returned(p, Nil)
            /\ UNCHANGED << closer, closing >>
       ELSE /\ log' = Logged(p, "shutdown error", stop[p].gerr)
            /\ closing' = "open"
            /\ closer' = [pc |-> "close", owner |-> {p}, err |-> Nil]
            /\ stop' = [stop EXCEPT ![p].pc = "select",
                                    ![p].timerSet = TRUE,
                                    ![p].timerLeft = TimerDuration(s)]
            /\ mutex' = MutexInForcedPhase(p)
    /\ UNCHANGED << conf, built, newErr, s, http, serve, calls >>

\* calls with one more call of listener operation o for the callers in owner
Counted(o, owner) ==
    [calls EXCEPT ![o] = [p \in Callers |->
                             IF p \in owner THEN calls[o][p] + 1
                             ELSE calls[o][p]]]

\* the goroutine: err = s.http.Close(), wrapped when not nil
CloserClose ==
    /\ closer.pc = "close"
    /\ \E e \in (IF http.listener = "tracked"
                 THEN {Nil, ErrListenerClose} ELSE {ListenerCloseErr(http)}) :
          /\ http' = HttpClose(http, e)
          /\ closer' = [closer EXCEPT
                            !.pc = "setKA",
                            !.err = IF e # Nil
                                    THEN Wrap("error closing", e) ELSE Nil]
    /\ calls' = Counted("Close", closer.owner)
    /\ UNCHANGED << conf, built, newErr, s, mutex, stop, closing, serve, log >>

\* the value the goroutine passes to SetKeepAlivesEnabled
KeepAlivesAfterClose == FALSE

\* `closing <- err` on the channel ch made by make(chan error): the channel
\* has no buffer, so the send waits until Stop receives
SendWaits_Buffered(ch) == FALSE
SendWaits(ch) == TRUE

\* the goroutine: s.http.SetKeepAlivesEnabled(false), then on to the send
CloserSetKeepAlives ==
    /\ closer.pc = "setKA"
    /\ http' = SetKeepAlivesEnabled(http, KeepAlivesAfterClose)
    /\ closer' = [closer EXCEPT
                      !.pc = IF SendWaits(closing) THEN "send"
                             ELSE "closeChan"]
    /\ calls' = Counted("SetKeepAlivesEnabled", closer.owner)
    /\ UNCHANGED << conf, built, newErr, s, mutex, stop, closing, serve, log >>

\* what Stop returns for the value err received from closing
ForcedResult_Unwrapped(err) == Nil
ForcedResult(err) ==
    IF err # Nil THEN Wrap("can't close http server", err) ELSE Nil

\* `case err := <-closing`: the goroutine's send and Stop's receive meet
StopReceive(p) ==
    /\ stop[p].pc = "select"
    /\ closer.pc = "send"
    /\ p \in closer.owner
    /\ closing = "open"
    /\ closer' = [closer EXCEPT !.pc = "closeChan"]
    /\ log' = IF closer.err # Nil
              THEN Logged(p, "closing error", ForcedResult(closer.err))
              ELSE Logged(p, "closing successful", Nil)
    /\ Returned(p, ForcedResult(closer.err))
    /\ UNCHANGED << conf, built, newErr, s, http, closing, serve, calls >>

\* the goroutine: close(closing)
CloserCloseChan ==
    /\ closer.pc = "closeChan"
    /\ closing' = "closed"
    /\ closer' = [closer EXCEPT !.pc = "done"]
    /\ UNCHANGED << conf, built, newErr, s, mutex, http, stop, serve, log,
                    calls >>

\* timer.C is readable
TimerFired_Always(p) == TRUE
TimerFired(p) == stop[p].timerSet /\ stop[p].timerLeft <= 0

\* the log once the timeout branch has written its line
TimeoutLogged_Missing(p) == log
TimeoutLogged(p) ==
    Logged(p, "closing timeout exceeded error", ErrTimeoutExceeded)

\* `case <-timer.C`
StopTimeout(p) ==
    /\ stop[p].pc = "select"
    /\ TimerFired(p)
    /\ log' = TimeoutLogged(p)
    /\ Returned(p, ErrTimeoutExceeded)
    /\ UNCHANGED << conf, built, newErr, s, http, closer, closing, serve,
                    calls >>

\* ------------------------------------------------------------------ time

\* some invocation has a statement to execute now: it is not blocked
Runnable ==
    \/ \E p \in Procs :
          \/ stop[p].pc = "lock" /\ CanLock(mutex)
          \/ stop[p].pc \in {"check", "shutdown", "shutdownDone", "ending"}
          \/ stop[p].pc = "shutdownWait" /\ ShutdownResults(p) # {}
          \/ stop[p].pc = "select"
                /\ (TimerFired(p) \/ (closer.pc = "send" /\ p \in closer.owner))
    \/ closer.pc \in {"setKA", "closeChan"}
    \/ serve.pc \in {"check", "listen", "track"}
    \/ serve.pc = "serving" /\ http.listener = "trackedClosed"

\* a Stop invocation is under way
InProgress(p) == stop[p].pc \notin {"idle", "done"}

\* the locals of a Stop invocation one unit of time later
Later(r) ==
    [r EXCEPT !.elapsed = @ + 1,
              !.ctx.left = IF r.ctx.hasDeadline /\ @ > 0 THEN @ - 1 ELSE @,
              !.timerLeft = IF r.timerSet /\ @ > 0 THEN @ - 1 ELSE @]

\* one unit of time passes while every invocation is blocked (time that
\* passes while no Stop is under way changes nothing)
Tick ==
    /\ built = "ok"
    /\ ~Runnable
    /\ \E p \in Procs : InProgress(p)
    /\ \A p \in Procs : InProgress(p) => stop[p].elapsed < MaxElapsed
    /\ stop' = [p \in Procs |->
                    IF InProgress(p) THEN Later(stop[p]) ELSE stop[p]]
    /\ UNCHANGED << conf, built, newErr, s, mutex, http, closer, closing,
                    serve, log, calls >>

\* ------------------------------------------------------------------ system

StopStep(p) ==
    \/ StopLock(p)
    \/ StopCheck(p)
    \/ StopShutdown(p)
    \/ StopShutdownWait(p)
    \/ StopAfterShutdown(p)
    \/ StopReceive(p)
    \/ StopTimeout(p)
    \/ StopEnd(p)

CloserStep == CloserSetKeepAlives \/ CloserCloseChan

ServeStep == ServeCheck \/ ServeListen \/ ServeTrack \/ ServeClosed

Next ==
    \/ New
    \/ ServeCall
    \/ ServeCheck
    \/ ServeListen
    \/ ServeTrack
    \/ ServeAcceptFault
    \/ ServeClosed
    \/ ConnArrive
    \/ ConnDone
    \/ \E p \in Procs : StopCall(p)
    \/ \E p \in Procs : StopLock(p)
    \/ \E p \in Procs : StopCheck(p)
    \/ \E p \in Procs : StopShutdown(p)
    \/ \E p \in Procs : StopShutdownWait(p)
    \/ \E p \in Procs : StopAfterShutdown(p)
    \/ \E p \in Procs : StopReceive(p)
    \/ \E p \in Procs : StopTimeout(p)
    \/ \E p \in Procs : StopEnd(p)
    \/ CloserClose
    \/ CloserSetKeepAlives
    \/ CloserCloseChan
    \/ Tick

Spec == Init /\ [][Next]_vars

\* The liveness of Serve is explored from the valid Configs (a positive and a
\* negative stop-timeout) with keep-alive enabled and callers that pass a live
\* context: neither keep-alive nor the caller's context reaches Serve.
InitLive ==
    /\ Init
    /\ Validate(cfg) = Nil
    /\ cfg.KeepAliveEnabled
    /\ callerCtx = Background

\* The Go scheduler runs every goroutine that is not blocked, and time passes:
\* the statements of Serve, of Stop and of the forced-close goroutine are taken
\* when they stay enabled.  Calls, requests, faults of the listener and the
\* return of http.Server.Close are the environment's and carry no fairness.
FairSpec ==
    /\ InitLive
    /\ [][Next]_vars
    /\ WF_vars(ServeStep)
    /\ \A p \in Procs : WF_vars(StopStep(p))
    /\ WF_vars(CloserStep)
    /\ WF_vars(Tick)

\* ------------------------------------------------------------------ claims

\* the Stop invocations that set the shutdown flag (each logs the line that
\* precedes the assignment)
Setters ==
    { p \in Procs :
        \E i \in 1..Len(log) :
            log[i].by = p /\ log[i].msg = "starting shutdown http server" }

\* the Stop invocations on whose behalf a listener operation was invoked
Workers == { p \in Procs : \E o \in Ops : calls[o][p] > 0 }

\* how often listener operation o was invoked over the controller's lifetime
RECURSIVE SumCalls(_, _)
SumCalls(o, ps) ==
    IF ps = {} THEN 0
    ELSE LET p == CHOOSE q \in ps : TRUE
         IN calls[o][p] + SumCalls(o, ps \ {p})

\* the forced-close goroutine has handed its result to Stop
Delivered == closer.pc \in {"closeChan", "done"}

\* C1: over the controller's lifetime Shutdown is invoked at most once and
\* Close at most once, at most one Stop invocation sets the flag, and every
\* listener operation is performed by (or for) that invocation.
C1_OneInvocationWorks ==
    /\ SumCalls("Shutdown", Procs) <= 1
    /\ SumCalls("Close", Procs) <= 1
    /\ SumCalls("SetKeepAlivesEnabled", Procs) <= 1
    /\ Cardinality(Setters) <= 1
    /\ Workers \subseteq Setters

\* C1 witness: every Stop invocation has returned, and one of them ran both
\* the graceful Shutdown and the forced Close.
C1_Witness ==
    /\ \A p \in Procs : stop[p].pc = "done"
    /\ \E p \in Procs : calls["Shutdown"][p] = 1 /\ calls["Close"][p] = 1

\* C2: the step of a Stop invocation that finds the flag set goes on to
\* return nil, and neither it nor the return that follows changes anything
\* else: no listener operation, no log line, the flag, the listener and the
\* forced-close task are as before.
C2_IdempotentStop ==
    [][\A p \in Procs :
          /\ (stop[p].pc = "check" /\ s.shutdown /\ stop'[p] # stop[p])
             => /\ stop'[p].pc = "ending"
                /\ stop'[p].ret = Nil
                /\ calls' = calls
                /\ log' = log
                /\ s' = s
                /\ http' = http
                /\ closer' = closer
                /\ closing' = closing
          /\ (stop[p].pc = "ending" /\ stop'[p] # stop[p])
             => /\ stop'[p].pc = "done"
                /\ stop'[p].ret = stop[p].ret
                /\ calls' = calls
                /\ log' = log
                /\ s' = s
                /\ http' = http
                /\ closer' = closer
                /\ closing' = closing]_vars

\* C2 witness: the first invocation returned an error, and another invocation,
\* which did no work, has returned nil.
C2_Witness ==
    \E p, q \in Procs :
        /\ p # q
        /\ stop[p].pc = "done" /\ stop[p].ret # Nil /\ p \in Setters
        /\ stop[q].pc = "done" /\ stop[q].ret = Nil /\ q \notin Setters

\* C3: an invocation whose graceful Shutdown returned no error has returned
\* nil; Close was never invoked, no forced-close task, channel or timer
\* exists, and keep-alive is as the Config says.
C3_GracefulSkipsForced ==
    \A p \in Procs :
        (stop[p].pc = "done" /\ p \in Setters /\ stop[p].gerr = Nil)
        => /\ stop[p].ret = Nil
           /\ SumCalls("Close", Procs) = 0
           /\ SumCalls("SetKeepAlivesEnabled", Procs) = 0
           /\ closer = CloserNone
           /\ closing = "nil"
           /\ ~stop[p].timerSet
           /\ http.disableKeepAlives = ~cfg.KeepAliveEnabled

\* C3 witness: a graceful shutdown that had to wait for a request in flight
\* has succeeded, on a server configured with keep-alive.
C3_Witness ==
    \E p \in Procs :
        /\ stop[p].pc = "done" /\ p \in Setters /\ stop[p].gerr = Nil
        /\ calls["Shutdown"][p] = 1
        /\ cfg.KeepAliveEnabled
        /\ \E i \in 1..Len(log) : log[i].msg = "shutdown successful"
        /\ serve.pc = "returned"

\* C4: after a graceful error the forced-close task exists; and once the task
\* has handed over its result, Stop has returned exactly that result (nil, or
\* the close error wrapped twice), not the graceful error and not the timeout
\* error, Close has been invoked and keep-alive is disabled.
C4_ForcedCloseResult ==
    \A p \in Procs :
        /\ (stop[p].pc \in {"select", "ending", "done"} /\ stop[p].gerr # Nil)
           => closer.owner = {p} /\ closer.pc # "none"
        /\ (stop[p].pc \in {"ending", "done"} /\ closer.owner = {p}
              /\ Delivered)
           => /\ stop[p].ret =
                    IF closer.err = Nil THEN Nil
                    ELSE << "can't close http server" >> \o closer.err
              /\ closer.err \in {Nil, << "error closing" >> \o ErrListenerClose}
              /\ stop[p].ret # stop[p].gerr
              /\ stop[p].ret # ErrTimeoutExceeded
              /\ calls["Close"][p] = 1
              /\ http.disableKeepAlives

\* C4 witness: on a server configured with keep-alive the forced close failed
\* and Stop returned its wrapped error.
C4_Witness ==
    \E p \in Procs :
        /\ stop[p].pc = "done" /\ closer.owner = {p} /\ Delivered
        /\ stop[p].ret # Nil
        /\ cfg.KeepAliveEnabled

\* C5: an invocation that leaves the select while the forced-close task has
\* not completed returns the timeout error; it returns the timeout error only
\* when its timer has fired; and no time passes for it in the select once the
\* timer has fired.
C5_TimeoutOnlyByTimer ==
    [][\A p \in Procs :
          /\ (stop[p].pc = "select" /\ stop'[p].pc = "ending"
                /\ closer.pc # "send")
             => stop'[p].ret = ErrTimeoutExceeded
          /\ (stop[p].pc # "ending" /\ stop'[p].pc = "ending"
                /\ stop'[p].ret = ErrTimeoutExceeded)
             => /\ stop[p].pc = "select"
                /\ stop[p].timerSet
                /\ stop[p].timerLeft <= 0
          /\ (stop[p].pc = "select" /\ stop[p].timerLeft <= 0)
             => stop'[p].elapsed <= stop[p].elapsed]_vars

\* C5 witness: Stop has returned the timeout error while the forced-close
\* task is still inside Close, on a controller with a positive stop-timeout.
C5_Witness ==
    \E p \in Procs :
        /\ stop[p].pc = "done" /\ stop[p].ret = ErrTimeoutExceeded
        /\ closer.pc = "close"
        /\ s.stopTimeout > 0

\* a Stop invocation has been called
StopCalled == \E p \in Procs : stop[p].pc # "idle"

\* C6: Serve has not returned unless Stop was called or the listener failed
\* (to start, or while accepting); and a Serve under way once Stop has been
\* called, whichever came first, eventually returns.
C6_ServeBlocksUntilStop ==
    /\ [](serve.pc = "returned"
            => (StopCalled \/ serve.ret \in {ErrListen, ErrAccept}))
    /\ ((serve.pc \in {"check", "listen", "track", "serving"} /\ StopCalled)
            ~> serve.pc = "returned")

\* C6 witness: Serve has returned because of a Stop, with no fault of the
\* listener.
C6_Witness ==
    /\ serve.pc = "returned"
    /\ serve.ret \notin {ErrListen, ErrAccept}
    /\ \E p \in Procs : stop[p].pc = "done" /\ calls["Shutdown"][p] = 1

\* C7: a Stop invocation under way has taken at most twice the configured
\* stop-timeout since its call.
C7_StopWithinTwiceTimeout ==
    \A p \in Procs : InProgress(p) => stop[p].elapsed <= 2 * s.stopTimeout

\* C7, for the controllers whose stop-timeout is positive: the bound holds,
\* also for an invocation waiting for the mutex.
C7_BoundForPositiveTimeout ==
    \A p \in Procs :
        (InProgress(p) /\ s.stopTimeout > 0)
        => stop[p].elapsed <= 2 * s.stopTimeout

\* C8: the step of Stop that derives the shutdown context is the same step
\* whatever context the caller passed; the context handed to Shutdown and the
\* timer of the forced phase both run for the configured stop-timeout.
C8_CallerContextIgnored ==
    [][\A p \in Procs :
          /\ \A c \in CallerCtxs :
                (stop[p].pc = "check" /\ StopCheckWith(p, stop[p].ctx))
                => StopCheckWith(p, c)
          /\ (stop[p].pc = "check" /\ stop'[p].pc = "shutdown")
             => stop'[p].ctx = [hasDeadline |-> TRUE, left |-> s.stopTimeout,
                                cancelled |-> FALSE]
          /\ (stop[p].pc = "shutdownDone" /\ stop'[p].pc = "select")
             => stop'[p].timerLeft = s.stopTimeout]_vars

\* C8 witness: the callers pass a context whose deadline is one unit away; the
\* invocation was called that long ago, and its graceful phase is still
\* waiting, on a context that is not done.
C8_Witness ==
    \E p \in Procs :
        /\ callerCtx.hasDeadline
        /\ stop[p].pc = "shutdownWait"
        /\ stop[p].elapsed >= callerCtx.left
        /\ ~CtxDone(stop[p].ctx)

\* C9: New returns a controller with the flag unset; the flag never goes from
\* true to false; it changes only in the step of a Stop invocation that found
\* it unset, and that step sets it.
C9_FlagSetOnce ==
    [][/\ (built = "no" /\ built' = "ok") => ~s'.shutdown
       /\ s.shutdown => s'.shutdown
       /\ (s'.shutdown # s.shutdown)
          => \E p \in Procs :
                stop[p].pc = "check" /\ stop'[p].pc = "shutdown"
       /\ \A p \in Procs :
             (stop[p].pc = "check" /\ ~s.shutdown /\ stop'[p] # stop[p])
             => s'.shutdown]_vars

\* C9 witness: Serve has returned, every Stop has returned, the shutdown ended
\* by the timeout, and the flag is set.
C9_Witness ==
    /\ s.shutdown
    /\ serve.pc = "returned"
    /\ \A p \in Procs : stop[p].pc = "done"
    /\ \E p \in Procs : stop[p].ret = ErrTimeoutExceeded

\* C10: when Serve has returned (on a controller with a positive
\* stop-timeout), it returned an error, and logged one, exactly when the
\* listener failed to start or failed while accepting; and it logged the
\* unexpected exit only when it returned nil and Stop had not been called.
C10_ServeErrorOnlyOnFault ==
    (serve.pc = "returned" /\ s.stopTimeout > 0)
    => LET line == serve.logged
       IN /\ (serve.ret # Nil) <=> (serve.ret \in {ErrListen, ErrAccept})
          /\ (line.msg = "error ListenAndServe")
                <=> (serve.ret \in {ErrListen, ErrAccept})
          /\ (line.msg = "unexpected exit ListenAndServe")
                => (serve.ret = Nil /\ ~StopCalled)

\* the Config has a dispatcher, a non-zero stop-timeout, an address that is a
\* colon followed by one or more digits, and an error sink
ValidConfig(c) ==
    /\ c.Router # "nil"
    /\ c.StopTimeout # 0
    /\ c.Addr # << >> /\ Head(c.Addr) = ":" /\ Tail(c.Addr) # << >>
    /\ \A i \in 1..Len(Tail(c.Addr)) : Tail(c.Addr)[i] \in Digits
    /\ c.ErrorsOutput # "nil"

\* nothing has been started or stopped: the listener is not bound, no request
\* is in flight, no Serve or Stop is or was under way, nothing was logged
NothingStarted ==
    /\ http.listener = "none" /\ ~http.inShutdown /\ http.active = 0
    /\ serve.pc = "idle" /\ serve.logged = NoLine
    /\ \A p \in Procs : stop[p].pc = "idle"
    /\ closer = CloserNone /\ closing = "nil" /\ mutex = {} /\ log = << >>

\* no operation has been invoked on the listener, by New or by any Stop
NoOperation == \A o \in Ops : SumCalls(o, Callers) = 0

\* C11, as stated (for the Configs whose stop-timeout is not negative): New
\* returns a controller exactly for the Configs with a dispatcher, a non-zero
\* stop-timeout, a well-formed address and an error sink, and an error and no
\* controller for every other Config; and when New returns nothing has been
\* started and no operation has been invoked on the listener.
C11_ConstructorNoOperation ==
    [][(built = "no" /\ built' # "no" /\ cfg.StopTimeout >= 0)
        => /\ (built' = "ok") <=> ValidConfig(cfg)
           /\ (built' = "failed") <=> ~ValidConfig(cfg)
           /\ (built' = "failed") => newErr' # Nil
           /\ (built' = "ok") => ~s'.shutdown
           /\ NothingStarted'
           /\ NoOperation']_vars

\* C11, amended: New returns a controller exactly for the Configs with a
\* dispatcher, a non-zero stop-timeout, a well-formed address and an error
\* sink, and an error and no controller for every other Config; the
\* controller returned has the flag unset.  New starts nothing.  When it
\* fails it invokes no operation on the listener, and nothing is ever
\* started; when it succeeds it invokes exactly one, SetKeepAlivesEnabled,
\* once, which sets keep-alive as the Config says; and New invokes nothing
\* later.
C11_ConstructorIffValid ==
    /\ [][(built = "no" /\ built' # "no")
            => /\ (built' = "ok") <=> ValidConfig(cfg)
               /\ (built' = "failed") <=> ~ValidConfig(cfg)
               /\ (built' = "ok")
                  => /\ newErr' = Nil
                     /\ s' = [stopTimeout |-> cfg.StopTimeout,
                              shutdown |-> FALSE]
                     /\ http'.Addr = cfg.Addr
                     /\ http'.Handler = cfg.Router
                     /\ http'.disableKeepAlives = ~cfg.KeepAliveEnabled
               /\ (built' = "failed")
                  => newErr' # Nil /\ s' = s /\ http' = ZeroHttp
               /\ NothingStarted']_vars
    /\ [](built \in {"no", "failed"}
            => (NothingStarted /\ NoOperation /\ http = ZeroHttp))
    /\ [](\A o \in Ops :
             calls[o][Constructor] =
                IF built = "ok" /\ o = "SetKeepAlivesEnabled" THEN 1 ELSE 0)

\* C11 witness: New has returned a controller for a Config that disables
\* keep-alive: nothing has been started, the one operation invoked is New's
\* SetKeepAlivesEnabled, and keep-alive is disabled.
C11_Witness ==
    /\ built = "ok" /\ newErr = Nil
    /\ ~cfg.KeepAliveEnabled /\ http.disableKeepAlives
    /\ NothingStarted
    /\ SumCalls("SetKeepAlivesEnabled", Callers) = 1
    /\ calls["SetKeepAlivesEnabled"][Constructor] = 1

\* C12: a controller exists only for a Config whose stop-timeout is strictly
\* positive, so no Stop invocation runs with a stop-timeout that is zero or
\* negative.
C12_StopTimeoutPositive ==
    /\ built = "ok" => (cfg.StopTimeout > 0 /\ s.stopTimeout > 0)
    /\ \A p \in Procs : InProgress(p) => s.stopTimeout > 0

\* a Stop invocation is between s.mutex.Lock() and the deferred Unlock
Locked(p) ==
    stop[p].pc \in {"check", "shutdown", "shutdownWait", "shutdownDone",
                    "select"}

\* C13, as stated: while the forced-close task and the timer of an invocation
\* are racing (on a controller with a positive stop-timeout), the lock is
\* free.
C13_LockFreeDuringRace ==
    \A p \in Procs :
        (stop[p].pc = "select" /\ s.stopTimeout > 0) => mutex = {}

\* C13, amended: a Stop invocation holds the lock from its acquisition until
\* the deferred Unlock at its exit, the forced-phase race included; and an
\* invocation finds the flag set, and goes on to return nil, only once the
\* invocation that set the flag has left the race, has its result and has
\* released the lock.
C13_LockHeldThroughRace ==
    /\ [](\A p \in Procs :
             /\ Locked(p) => mutex = {p}
             /\ stop[p].pc \in {"ending", "done"} => p \notin mutex)
    /\ [][\A q \in Procs :
            (stop[q].pc = "check" /\ stop'[q].pc = "ending")
            => /\ Setters # {} /\ q \notin Setters
               /\ \A p \in Setters : stop[p].pc \in {"ending", "done"}]_vars

\* C13 witness: the forced-phase race of one invocation has been going on for
\* some time, it holds the lock, and another invocation has been waiting for
\* the lock meanwhile.
C13_Witness ==
    \E p, q \in Procs :
        /\ stop[p].pc = "select" /\ stop[p].timerLeft < s.stopTimeout
        /\ mutex = {p}
        /\ stop[q].pc = "lock" /\ stop[q].elapsed > 0

\* the lifecycle state of the controller New returned: ShuttingDown from the
\* setting of the flag until the invocation that set it returns, Stopped from
\* then on; with the flag unset, Running while a Serve call is under way,
\* Exited when the last Serve call has returned, Idle before the first
LifecycleState ==
    IF built # "ok" THEN "None"
    ELSE IF s.shutdown
         THEN IF \E p \in Setters : stop[p].pc # "done"
              THEN "ShuttingDown" ELSE "Stopped"
    ELSE IF serve.pc \in {"check", "listen", "track", "serving"}
         THEN "Running"
    ELSE IF serve.pc = "returned" THEN "Exited"
    ELSE "Idle"

\* a step in which Serve is entered
ServeEntry == serve.pc \in {"idle", "returned"} /\ serve'.pc = "check"

\* C14, as stated: under Serve and Stop calls (on a controller with a positive
\* stop-timeout whose listener has not failed) the lifecycle state changes
\* only from Idle to Running, on Serve entry, from Running to ShuttingDown,
\* and from ShuttingDown to Stopped.
C14_LifecycleTransitions ==
    [][(/\ built = "ok" /\ s.stopTimeout > 0
        /\ serve'.ret \notin {ErrListen, ErrAccept}
        /\ LifecycleState' # LifecycleState)
        => /\ << LifecycleState, LifecycleState' >> \in
                 { << "Idle", "Running" >>, << "Running", "ShuttingDown" >>,
                   << "ShuttingDown", "Stopped" >> }
           /\ (LifecycleState = "Idle") => ServeEntry]_vars

\* C14, amended: beside the three transitions of the claim, a Stop called
\* before Serve takes Idle to ShuttingDown, a Serve that returns on a fault
\* of the listener takes Running to Exited, and from Exited a Serve entry
\* leads to Running and a Stop to ShuttingDown.  Running is entered by Serve
\* entry only, ShuttingDown by the step of Stop that sets the flag, Stopped
\* by the return of that invocation, Exited by the return of Serve.  While a
\* Stop invocation does shutdown work the state is ShuttingDown.  Stopped is
\* terminal, and in it the listener accepts no connection.
C14_LifecycleAmended ==
    /\ [][ /\ (built = "no" /\ built' = "ok") => LifecycleState' = "Idle"
           /\ (built = "ok" /\ LifecycleState' # LifecycleState)
              => /\ << LifecycleState, LifecycleState' >> \in
                       { << "Idle", "Running" >>,
                         << "Running", "ShuttingDown" >>,
                         << "ShuttingDown", "Stopped" >>,
                         << "Idle", "ShuttingDown" >>,
                         << "Running", "Exited" >>,
                         << "Exited", "Running" >>,
                         << "Exited", "ShuttingDown" >> }
                 /\ (LifecycleState' = "Running") => ServeEntry
                 /\ (LifecycleState' = "ShuttingDown")
                    => \E p \in Procs :
                          stop[p].pc = "check" /\ stop'[p].pc = "shutdown"
                 /\ (LifecycleState' = "Stopped")
                    => \E p \in Setters :
                          stop[p].pc # "done" /\ stop'[p].pc = "done"
                 /\ (LifecycleState' = "Exited")
                    => /\ serve'.pc = "returned"
                       /\ serve'.ret \in {ErrListen, ErrAccept}
           /\ (LifecycleState = "Stopped")
              => (LifecycleState' = "Stopped" /\ http'.active <= http.active)
          ]_vars
    /\ [](\A p \in Procs :
             stop[p].pc \in {"shutdown", "shutdownWait", "shutdownDone",
                             "select"}
             => LifecycleState = "ShuttingDown")
    /\ [](LifecycleState = "Stopped"
            => (http.inShutdown /\ http.listener # "tracked"))

\* C14 witness: Serve has been entered again after it had returned on a fault
\* of the listener (its latest line reports the fault, and the new call is
\* accepting connections with one in flight), and the first Stop has set the
\* flag since: the controller has gone from Running to Exited and back to
\* Running, and is now ShuttingDown.
C14_Witness ==
    /\ LifecycleState = "ShuttingDown"
    /\ serve.pc = "serving" /\ http.listener = "tracked" /\ http.active = 1
    /\ serve.logged = [msg |-> "error ListenAndServe", err |-> ErrAccept]
    /\ \E p \in Setters : stop[p].pc = "shutdown"

\* the messages of the lines that report how a shutdown ended
TerminalMsgs ==
    {"shutdown successful", "closing successful", "closing error",
     "closing timeout exceeded error"}

\* the positions in the log of the terminal lines Stop invocation p wrote
TerminalLines(p) ==
    { i \in 1..Len(log) : log[i].by = p /\ log[i].msg \in TerminalMsgs }

\* C15: an invocation that set the flag has written no terminal line while
\* it is at work and exactly one when it returns; that line is the
\* last one it wrote, and it tells the outcome returned: "shutdown
\* successful" with nil after a graceful phase without error, "closing
\* successful" with nil after a forced close, "closing error" with the close
\* error, wrapped, and "closing timeout exceeded error" with the timeout
\* error.  An invocation that did not set the flag writes nothing.
C15_OneTerminalLine ==
    \A p \in Procs :
        /\ (p \in Setters /\ stop[p].pc \notin {"ending", "done"})
           => TerminalLines(p) = {}
        /\ (p \notin Setters) => \A i \in 1..Len(log) : log[i].by # p
        /\ (p \in Setters /\ stop[p].pc \in {"ending", "done"})
           => /\ Cardinality(TerminalLines(p)) = 1
              /\ \A i \in TerminalLines(p) :
                    /\ \A j \in (i + 1)..Len(log) : log[j].by # p
                    /\ log[i].err = stop[p].ret
                    /\ (log[i].msg = "shutdown successful")
                          <=> (stop[p].ret = Nil /\ stop[p].gerr = Nil)
                    /\ (log[i].msg = "closing successful")
                          <=> (stop[p].ret = Nil /\ stop[p].gerr # Nil)
                    /\ (log[i].msg = "closing error")
                          <=> stop[p].ret = << "can't close http server",
                                               "error closing" >>
                                             \o ErrListenerClose
                    /\ (log[i].msg = "closing timeout exceeded error")
                          <=> stop[p].ret = ErrTimeoutExceeded

\* C15 witness: an invocation whose graceful phase failed has returned nil
\* from the forced phase, with "closing successful" as its last line.
C15_Witness ==
    \E p \in Setters :
        /\ stop[p].pc = "done" /\ stop[p].ret = Nil /\ stop[p].gerr # Nil
        /\ log # << >>
        /\ log[Len(log)] =
              [by |-> p, msg |-> "closing successful", err |-> Nil]

\* C16: at most one Stop invocation is between Lock and Unlock, and it
\* holds the lock; the step that reads the flag is taken by the holder of the
\* lock, the flag changes only in a step of the holder, and an invocation
\* observes the flag unset only if no other invocation has observed it unset
\* before.
C16_FlagUnderLock ==
    /\ [](/\ Cardinality(mutex) <= 1
          /\ Cardinality({ p \in Procs : Locked(p) }) <= 1
          /\ \A p \in Procs : Locked(p) <=> p \in mutex)
    /\ [][ /\ \A p \in Procs :
                (stop[p].pc = "check" /\ stop'[p] # stop[p])
                => /\ mutex = {p}
                   /\ (stop'[p].pc = "shutdown")
                      => /\ ~s.shutdown /\ s'.shutdown
                         /\ Setters = {} /\ Setters' = {p}
                         /\ mutex' = {p}
                   /\ (stop'[p].pc = "ending") => (s.shutdown /\ s'.shutdown)
           /\ (built = "ok" /\ s'.shutdown # s.shutdown)
              => \E p \in Procs :
                    mutex = {p} /\ stop[p].pc = "check" ]_vars

\* C16 witness: one invocation holds the lock and is about to read the flag,
\* which is unset, while another is waiting for the lock.
C16_Witness ==
    \E p, q \in Procs :
        /\ p # q
        /\ stop[p].pc = "check" /\ ~s.shutdown /\ mutex = {p}
        /\ stop[q].pc = "lock"

\* Stop invocation p has returned the timeout error: the timer won the race
TimedOut(p) == stop[p].pc = "done" /\ stop[p].ret = ErrTimeoutExceeded

\* C17: once Stop has returned the timeout error, the forced-close task has
\* not terminated and never does: it is inside Close, about to disable
\* keep-alive, or blocked in its send, and the channel is open and never
\* closed; a task that has come back from Close disables keep-alive and goes
\* on to the send; and a task blocked in the send stays there.
C17_AbandonedCloserBlocks ==
    /\ [](\A p \in Procs :
             TimedOut(p)
             => /\ closer.owner = {p}
                /\ closer.pc \in {"close", "setKA", "send"}
                /\ closing = "open")
    /\ [][\A p \in Procs :
             TimedOut(p)
             => /\ (closer.pc = "send") => (closer' = closer)
                /\ (closer.pc = "setKA" /\ closer' # closer)
                   => (closer'.pc = "send" /\ http'.disableKeepAlives)
                /\ closing' = closing]_vars
    /\ \A p \in Procs :
          (TimedOut(p) /\ closer.pc = "setKA")
          ~> (closer.pc = "send" /\ http.disableKeepAlives)

\* C17 witness: Stop returned the timeout error on a server configured with
\* keep-alive, every invocation has returned, and the task has since come
\* back from Close, disabled keep-alive and is blocked in its send.
C17_Witness ==
    /\ \E p \in Procs : TimedOut(p)
    /\ \A p \in Procs : stop[p].pc = "done"
    /\ closer.pc = "send" /\ closer.err = Nil
    /\ cfg.KeepAliveEnabled /\ http.disableKeepAlives
    /\ closing = "open"

====
